---------------------------- MODULE Spec2Model ----------------------------
(***************************************************************************)
(* Model of the disk I/O plugin of Glances with NVMe support:              *)
(*   glances/plugins/diskio/__init__.py  (PluginModel, NVMeMetrics)        *)
(*   glances/plugins/nvme_detection.py   (NVMeDetection, health metrics)   *)
(*   glances/plugins/nvme_metrics.py     (NVMeMetrics, same code again)    *)
(*                                                                         *)
(* Conventions.                                                            *)
(*  - Python strings are TLA+ strings; str.startswith and the substring   *)
(*    test `in` are computed on the characters.                            *)
(*  - Python None is the empty sequence <<>>, a present value x is <<x>>.  *)
(*  - A float that results from a true division a / b is kept as the      *)
(*    exact fraction [num |-> a, den |-> b]; the int 0 is 0/1.             *)
(*  - time.time() is an integer number of clock units.  It is a wall       *)
(*    clock: two calls may return the same value, or a smaller one.        *)
(*  - A dict is a sequence of <<key, value>> pairs in insertion order.     *)
(***************************************************************************)
EXTENDS Integers, Sequences, FiniteSets, TLC

VARIABLES
    metrics,    \* a long-lived NVMeMetrics instance (its two attributes)
    call,       \* history: the last get_disk_io_metrics call on `metrics`
    obsTime,    \* history: per device id, when last_disk_stats[id] was stored
    self_args,  \* PluginModel.args
    hide_list,  \* the disk names the configuration hides (is_display)
    stats,      \* the list the last update_local returned (<<>> if it raised)
    tick,       \* history: what the collaborators answered in the last update_local
    repeated,   \* history: the last update_local got the answers of the one before
    views,      \* PluginModel.views: per key, the decoration of its byte fields
    alerts,     \* history: the get_alert calls of the last update_views, in order
    detector,   \* a long-lived NVMeDetection instance (its attribute nvme_drives)
    listing     \* history: the last list_nvme_drives call on `detector`

engineVars == <<metrics, call, obsTime>>

samplerVars == <<self_args, hide_list, stats, tick, repeated>>

viewsVars == <<views, alerts>>

catalogVars == <<detector, listing>>

vars == <<metrics, call, obsTime, self_args, hide_list, stats, tick, repeated,
          views, alerts, detector, listing>>

---------------------------------------------------------------------------
(* Bounds of the model *)

\* time.time() returns a value in 0..MaxTime
MaxTime == 2
\* a device has carried out at most MaxOps operations, reads and writes together
MaxOps == 1

\* bytes one read or write operation of the sampled counters transfers
BytesPerOperation == 2

\* detect_nvme_drives is called while self.nvme_drives holds fewer than
\* MaxCatalog entries
MaxCatalog == 3

Times == 0..MaxTime

---------------------------------------------------------------------------
(* Python values *)

None == <<>>
Some(x) == <<x>>
IsNone(v) == v = <<>>
Val(v) == v[1]

\* a / b as a float, b # 0, kept exact
Frac(a, b) == [num |-> a, den |-> b]
\* the int literal 0 of the else branch
IntZero == [num |-> 0, den |-> 1]
\* value comparisons on fractions (denominators are never 0)
FracEq(r, a, b) == r.num * b = a * r.den
FracIsZero(r) == r.num = 0
FracIsNegative(r) == r.num * r.den < 0

---------------------------------------------------------------------------
(* The counter source: psutil.disk_io_counters(perdisk=True) *)

\* device names of the counter source's namespace
EngineIds == {"disk0", "disk1"}

\* one sdiskio tuple: rc and wc operations, each of which transferred
\* BytesPerOperation bytes, so that the operation counters and the byte
\* counters of a sampled tuple differ
Counters(rc, wc) ==
    [read_count |-> rc, write_count |-> wc,
     read_bytes |-> rc * BytesPerOperation, write_bytes |-> wc * BytesPerOperation]

CounterVals ==
    { Counters(p[1], p[2]) :
        p \in { q \in (0..MaxOps) \X (0..MaxOps) : q[1] + q[2] <= MaxOps } }

\* dict operations on a sequence of <<key, value>> pairs
Keys(d) == { d[i][1] : i \in DOMAIN d }
HasKey(d, k) == \E i \in DOMAIN d : d[i][1] = k
Get(d, k) == d[CHOOSE i \in DOMAIN d : d[i][1] = k][2]

\* all dicts over the keys `names` (every subset, every insertion order)
RECURSIVE DictsOver(_, _)
DictsOver(names, vals) ==
    IF names = {} THEN { <<>> }
    ELSE {<<>>} \cup
         UNION { { <<<<n, v>>>> \o rest : v \in vals, rest \in DictsOver(names \ {n}, vals) }
                 : n \in names }

\* a result of the psutil call: it raises, or returns a dict
PsutilRaises == [raises |-> TRUE, disks |-> <<>>]
PsutilReturns(d) == [raises |-> FALSE, disks |-> d]

\* What the psutil call may answer when the engine observes `id`: it raises,
\* or returns a dict without `id`, or one with `id` (alone, or after the
\* other devices, whose entries the call does not read).
OtherDisks(id) == { << <<n, Counters(0, 0)>> >> : n \in EngineIds \ {id} }

EngineIO(id) ==
    {PsutilRaises, PsutilReturns(<<>>)}
    \cup { PsutilReturns(o) : o \in OtherDisks(id) }
    \cup { PsutilReturns(Append(o, <<id, c>>)) : o \in OtherDisks(id), c \in CounterVals }

---------------------------------------------------------------------------
(* NVMeMetrics *)

\* last_disk_stats is only ever indexed by key: it is a function from the
\* device ids stored so far.  EmptyMap is {}.
EmptyMap == <<>>

\* NVMeMetrics.__init__ at time t
NVMeMetricsInit(t) == [last_disk_stats |-> EmptyMap, last_update_time |-> t]

\* m[k] = v
MapSet(m, k, v) == (k :> v) @@ m

\* A speed treats a device seen for the first time as one whose counters were 0.
SpeedFromZero(known, current, last, elapsed_time) ==
    IF known THEN Frac(current - last, elapsed_time) ELSE Frac(current, 1)

\* read_speed / write_speed of get_disk_io_metrics: the if/else on
\* `device_id in self.last_disk_stats` (`last` is read only when known)
Speed(known, current, last, elapsed_time) ==
    IF known THEN Frac(current - last, elapsed_time) ELSE IntZero

\* NVMeMetrics.get_disk_io_metrics(device_id), given what the psutil call
\* and time.time() return.  The result holds the instance afterwards, the
\* returned value, and the exception the except clause caught ("" if none).
get_disk_io_metrics(self, device_id, io, current_time) ==
    IF io.raises
    THEN [self |-> self, ret |-> None, caught |-> "psutil.Error"]
    ELSE IF ~HasKey(io.disks, device_id)
    THEN [self |-> self, ret |-> None, caught |-> ""]
    ELSE
      LET current_stats == Get(io.disks, device_id)
          known == device_id \in DOMAIN self.last_disk_stats
          last_stats == self.last_disk_stats[device_id]
          elapsed_time == current_time - self.last_update_time
      IN IF known /\ elapsed_time = 0
         THEN [self |-> self, ret |-> None, caught |-> "ZeroDivisionError"]
         ELSE
           LET read_speed ==
                 Speed(known, current_stats.read_bytes,
                       IF known THEN last_stats.read_bytes ELSE 0, elapsed_time)
               write_speed ==
                 Speed(known, current_stats.write_bytes,
                       IF known THEN last_stats.write_bytes ELSE 0, elapsed_time)
           IN [self |-> [last_disk_stats |->
                             MapSet(self.last_disk_stats, device_id, current_stats),
                         last_update_time |-> current_time],
               ret |-> Some([read_speed |-> read_speed,
                             write_speed |-> write_speed,
                             read_count |-> current_stats.read_count,
                             write_count |-> current_stats.write_count]),
               caught |-> ""]

---------------------------------------------------------------------------
(* The WMI interface: wmi.WMI() and c.Win32_DiskDrive() *)

\* the model name detect_nvme_drives looks for
NVMeModelName == "Samsung SSD 990 PRO"

\* disk.Size is a number of bytes; the sampled sizes are whole MiB and are
\* written in MiB, so that 1 GB (1024**3 bytes) is MiBPerGB of them
MiBPerGB == 1024

\* One Win32_DiskDrive object.  Model and Size may be None (WMI leaves
\* properties it cannot read empty).
WmiDisk(id, model, size) == [DeviceID |-> id, Model |-> model, Size |-> size]

Nvme0 == WmiDisk("disk0", Some("Samsung SSD 990 PRO 1TB"), Some(1024))
Nvme1 == WmiDisk("disk1", Some("Samsung SSD 990 PRO 1TB"), Some(1536))
Hdd2 == WmiDisk("disk2", Some("WD Blue"), Some(2048))
Unreadable == WmiDisk("disk3", None, None)

\* What the WMI interface answers in one tick: wmi.WMI() raises (open is
\* FALSE), or Win32_DiskDrive() raises (disks is None), or it lists disks.
WmiAnswer(open, disks) == [open |-> open, disks |-> disks]
WmiOpenFails == WmiAnswer(FALSE, None)
WmiQueryFails == WmiAnswer(TRUE, None)

WmiAnswers ==
    {WmiOpenFails, WmiQueryFails}
    \cup { WmiAnswer(TRUE, Some(l)) :
             l \in { <<>>, <<Nvme0>>, <<Nvme1, Hdd2, Nvme0>>,
                     <<Nvme0, Unreadable, Nvme1>> } }

---------------------------------------------------------------------------
(* NVMeDetection *)

\* `sub in s` on strings
Contains(s, sub) ==
    \E i \in 1..(Len(s) - Len(sub) + 1) : SubSeq(s, i, i + Len(sub) - 1) = sub

\* round(a / b, 2) for a, b > 0, in hundredths: round half to even
RoundHundredths(a, b) ==
    LET q == (100 * a) \div b
        r == (100 * a) % b
    IN IF 2 * r > b \/ (2 * r = b /\ q % 2 = 1) THEN q + 1 ELSE q

\* the body of the for loop of detect_nvme_drives, from disk i on: the list
\* so far, and whether an exception ended the loop (caught by the except)
RECURSIVE DetectLoop(_, _, _)
DetectLoop(nvme_drives, disks, i) ==
    IF i > Len(disks) THEN [nvme_drives |-> nvme_drives, caught |-> ""]
    ELSE LET disk == disks[i]
         IN IF IsNone(disk.Model)
            THEN [nvme_drives |-> nvme_drives, caught |-> "TypeError"]
            ELSE IF ~Contains(Val(disk.Model), NVMeModelName)
            THEN DetectLoop(nvme_drives, disks, i + 1)
            ELSE IF IsNone(disk.Size)
            THEN [nvme_drives |-> nvme_drives, caught |-> "TypeError"]
            ELSE DetectLoop(
                   Append(nvme_drives,
                          [DeviceID |-> disk.DeviceID,
                           Model |-> Val(disk.Model),
                           Size |-> RoundHundredths(Val(disk.Size), MiBPerGB)]),
                   disks, i + 1)

\* NVMeDetection.detect_nvme_drives: self.nvme_drives afterwards and the
\* value returned
detect_nvme_drives(nvme_drives, wmi) ==
    IF ~wmi.open
    THEN [nvme_drives |-> nvme_drives, ret |-> <<>>, caught |-> "x_wmi"]
    ELSE IF IsNone(wmi.disks)
    THEN [nvme_drives |-> nvme_drives, ret |-> <<>>, caught |-> "x_wmi"]
    ELSE LET r == DetectLoop(nvme_drives, Val(wmi.disks), 1)
         IN [nvme_drives |-> r.nvme_drives,
             ret |-> IF r.caught = "" THEN r.nvme_drives ELSE <<>>,
             caught |-> r.caught]

\* NVMeDetection.list_nvme_drives: self.nvme_drives afterwards, also returned
list_nvme_drives(nvme_drives, wmi) ==
    IF nvme_drives = <<>>
    THEN detect_nvme_drives(nvme_drives, wmi).nvme_drives
    ELSE nvme_drives

\* get_nvme_health_metrics(device_id): wmi.WMI() is called outside the try,
\* so its exception leaves the function (raised); the rest is caught
get_nvme_health_metrics(device_id, wmi) ==
    IF ~wmi.open THEN [raised |-> "x_wmi", ret |-> None]
    ELSE IF IsNone(wmi.disks) THEN [raised |-> "", ret |-> None]
    ELSE IF \E i \in DOMAIN Val(wmi.disks) : Val(wmi.disks)[i].DeviceID = device_id
    THEN [raised |-> "", ret |-> Some([health_status |-> "Healthy", temperature |-> None])]
    ELSE [raised |-> "", ret |-> None]

---------------------------------------------------------------------------
(* PluginModel.update_local *)

\* block device names of the counter source: a RAM disk, and a disk whose
\* name is also the DeviceID under which WMI lists the drive Nvme0
BlockNames == {"ram0", "disk0"}

\* `s.startswith(prefix)` on strings
StartsWith(s, prefix) == Len(s) >= Len(prefix) /\ SubSeq(s, 1, Len(prefix)) = prefix

\* self.args: None, or the parsed arguments with diskio_show_ramfs
ArgsVals == {None} \cup { Some([diskio_show_ramfs |-> b]) : b \in BOOLEAN }

\* self.is_display(disk_name): the display-inclusion policy of the
\* configuration, a fixed set of hidden names
is_display(hidden, disk_name) == disk_name \notin hidden

\* self.filter_stats(disk_stat): the sdiskio tuple as a dict of its fields
filter_stats(disk_stat) ==
    [read_count |-> disk_stat.read_count, write_count |-> disk_stat.write_count,
     read_bytes |-> disk_stat.read_bytes, write_bytes |-> disk_stat.write_bytes]

\* self.get_key()
get_key == "disk_name"

\* A stat of an NVMe drive that reports a drive without health metrics as healthy.
NVMeStatAlwaysHealthy(nvme_drive, io_metrics, health_metrics) ==
    [key |-> get_key,
     disk_name |-> nvme_drive.Model,
     read_speed |-> IF IsNone(io_metrics) THEN IntZero ELSE Val(io_metrics).read_speed,
     write_speed |-> IF IsNone(io_metrics) THEN IntZero ELSE Val(io_metrics).write_speed,
     read_count |-> IF IsNone(io_metrics) THEN 0 ELSE Val(io_metrics).read_count,
     write_count |-> IF IsNone(io_metrics) THEN 0 ELSE Val(io_metrics).write_count,
     read_bytes |-> 0,
     write_bytes |-> 0,
     health_status |-> "Healthy",
     temperature |-> None]

\* the stat appended for one NVMe drive
NVMeStat(nvme_drive, io_metrics, health_metrics) ==
    [key |-> get_key,
     disk_name |-> nvme_drive.Model,
     read_speed |-> IF IsNone(io_metrics) THEN IntZero ELSE Val(io_metrics).read_speed,
     write_speed |-> IF IsNone(io_metrics) THEN IntZero ELSE Val(io_metrics).write_speed,
     read_count |-> IF IsNone(io_metrics) THEN 0 ELSE Val(io_metrics).read_count,
     write_count |-> IF IsNone(io_metrics) THEN 0 ELSE Val(io_metrics).write_count,
     read_bytes |-> 0,
     write_bytes |-> 0,
     health_status |-> IF IsNone(health_metrics) THEN "Unknown"
                       ELSE Val(health_metrics).health_status,
     temperature |-> IF IsNone(health_metrics) THEN None
                     ELSE Val(health_metrics).temperature]

\* A regular stat reports the byte counters as the speeds.
RegularStatSpeedFromBytes(disk_name, disk_stat) ==
    LET stat == filter_stats(disk_stat)
    IN [key |-> get_key,
        disk_name |-> disk_name,
        read_speed |-> Frac(stat.read_bytes, 1),
        write_speed |-> Frac(stat.write_bytes, 1),
        read_count |-> stat.read_count,
        write_count |-> stat.write_count,
        read_bytes |-> stat.read_bytes,
        write_bytes |-> stat.write_bytes,
        health_status |-> "N/A",
        temperature |-> None]

\* the stat appended for one regular disk
RegularStat(disk_name, disk_stat) ==
    LET stat == filter_stats(disk_stat)
    IN [key |-> get_key,
        disk_name |-> disk_name,
        read_speed |-> IntZero,
        write_speed |-> IntZero,
        read_count |-> stat.read_count,
        write_count |-> stat.write_count,
        read_bytes |-> stat.read_bytes,
        write_bytes |-> stat.write_bytes,
        health_status |-> "N/A",
        temperature |-> None]

\* the health call for device FlakyDevice is answered by hwmi, the health
\* calls for the other drives by the answer the detection got
FlakyDevice == "disk0"
HealthWmi(device_id, wmi, hwmi) == IF device_id = FlakyDevice THEN hwmi ELSE wmi

\* the loop over nvme_drives, from drive i on.  Every drive gets a fresh
\* NVMeMetrics(); an exception of the health call leaves update_local.
RECURSIVE NVMeLoop(_, _, _, _, _, _, _)
NVMeLoop(lst, nvme_drives, i, io, wmi, hwmi, t) ==
    IF i > Len(nvme_drives) THEN [raised |-> "", stats |-> lst]
    ELSE
      LET nvme_drive == nvme_drives[i]
          io_metrics ==
            get_disk_io_metrics(NVMeMetricsInit(t), nvme_drive.DeviceID, io, t).ret
          health ==
            get_nvme_health_metrics(nvme_drive.DeviceID,
                                    HealthWmi(nvme_drive.DeviceID, wmi, hwmi))
      IN IF health.raised # ""
         THEN [raised |-> health.raised, stats |-> lst]
         ELSE NVMeLoop(Append(lst, NVMeStat(nvme_drive, io_metrics, health.ret)),
                       nvme_drives, i + 1, io, wmi, hwmi, t)

\* A RAM disk test that does not read the option.
SkipRamDiskWhateverOption(args, disk_name) == StartsWith(disk_name, "ram")

\* the RAM disk test of the loop over diskio.items()
SkipRamDisk(args, disk_name) ==
    /\ ~IsNone(args)
    /\ ~Val(args).diskio_show_ramfs
    /\ StartsWith(disk_name, "ram")

\* A loop over diskio.items() that puts each stat at the head of the list.
RECURSIVE RegularLoopPrepending(_, _, _, _, _)
RegularLoopPrepending(lst, diskio, i, args, hidden) ==
    IF i > Len(diskio) THEN lst
    ELSE LET disk_name == diskio[i][1]
             disk_stat == diskio[i][2]
         IN IF SkipRamDisk(args, disk_name) \/ ~is_display(hidden, disk_name)
            THEN RegularLoopPrepending(lst, diskio, i + 1, args, hidden)
            ELSE RegularLoopPrepending(<<RegularStat(disk_name, disk_stat)>> \o lst,
                                       diskio, i + 1, args, hidden)

\* the loop over diskio.items(), from item i on, appending to the list the
\* loop over the NVMe drives left
RECURSIVE RegularLoop(_, _, _, _, _)
RegularLoop(lst, diskio, i, args, hidden) ==
    IF i > Len(diskio) THEN lst
    ELSE LET disk_name == diskio[i][1]
             disk_stat == diskio[i][2]
         IN IF SkipRamDisk(args, disk_name) \/ ~is_display(hidden, disk_name)
            THEN RegularLoop(lst, diskio, i + 1, args, hidden)
            ELSE RegularLoop(Append(lst, RegularStat(disk_name, disk_stat)),
                             diskio, i + 1, args, hidden)

\* PluginModel.update_local (the decorated function's body): the exception
\* that leaves it ("" if none) and the list returned.  The NVMeMetrics calls
\* read the counter source in the state the first call found it in.
update_local(args, hidden, io, wmi, hwmi, t) ==
    IF io.raises THEN [raised |-> "", stats |-> <<>>]
    ELSE
      LET nvme_drives == list_nvme_drives(<<>>, wmi)
          n == NVMeLoop(<<>>, nvme_drives, 1, io, wmi, hwmi, t)
      IN IF n.raised # ""
         THEN [raised |-> n.raised, stats |-> <<>>]
         ELSE [raised |-> "",
               stats |-> RegularLoop(n.stats, io.disks, 1, args, hidden)]

---------------------------------------------------------------------------
(* PluginModel.update_views *)

\* self.get_alert(current, header=...): the decoration the alerting of the
\* base class computes, kept as the value and the header it was asked about
get_alert(current, header) == [current |-> current, header |-> header]

\* super().update_views(): a view per key of the stats, every field with
\* the default decoration
BaseViews(raw) ==
    [ k \in { raw[i][get_key] : i \in DOMAIN raw } |->
        [read_bytes |-> [decoration |-> "DEFAULT"],
         write_bytes |-> [decoration |-> "DEFAULT"]] ]

\* the loop over self.get_raw(), from item i on: v the views, a the
\* get_alert calls made so far
RECURSIVE ViewsLoop(_, _, _, _)
ViewsLoop(v, a, raw, i) ==
    IF i > Len(raw) THEN [views |-> v, alerts |-> a]
    ELSE LET disk_real_name == raw[i].disk_name
             rx == get_alert(raw[i].read_bytes, disk_real_name \o "_rx")
             tx == get_alert(raw[i].write_bytes, disk_real_name \o "_tx")
         IN ViewsLoop([v EXCEPT ![raw[i][get_key]].read_bytes.decoration = rx,
                                ![raw[i][get_key]].write_bytes.decoration = tx],
                      a \o <<rx, tx>>, raw, i + 1)

\* PluginModel.update_views, self.get_raw() returning raw
update_views(raw) == ViewsLoop(BaseViews(raw), <<>>, raw, 1)

---------------------------------------------------------------------------
(* The engine observed over time: one instance, many calls *)

NoCall ==
    [made |-> FALSE, device_id |-> "", time |-> 0, current |-> None,
     prior |-> None, prior_time |-> None, ret |-> None, caught |-> ""]

\* the plugin's variables when only the engine is looked at: a plugin that
\* has run its first update on a machine without disks
IdlePlugin ==
    [self_args |-> None, hide_list |-> {}, stats |-> <<>>,
     tick |-> [io |-> PsutilReturns(<<>>), wmi |-> WmiOpenFails, hwmi |-> WmiOpenFails,
               time |-> 0, raised |-> ""]]

\* no list_nvme_drives call made yet
NoListing == [made |-> FALSE, wmi |-> WmiOpenFails, ret |-> <<>>]

\* NVMeMetrics() constructed at any time
EngineInit ==
    /\ \E t \in Times : metrics = NVMeMetricsInit(t)
    /\ call = NoCall
    /\ obsTime = EmptyMap
    /\ self_args = IdlePlugin.self_args
    /\ hide_list = IdlePlugin.hide_list
    /\ stats = IdlePlugin.stats
    /\ tick = IdlePlugin.tick
    /\ repeated = FALSE
    /\ views = EmptyMap
    /\ alerts = <<>>
    /\ detector = <<>>
    /\ listing = NoListing

\* one call metrics.get_disk_io_metrics(id) at time t, psutil answering io
Observe(id, io, t) ==
    \E r \in {get_disk_io_metrics(metrics, id, io, t)} :
       /\ metrics' = r.self
       /\ call' = [made |-> TRUE, device_id |-> id, time |-> t,
                   current |-> IF ~io.raises /\ HasKey(io.disks, id)
                               THEN Some(Get(io.disks, id)) ELSE None,
                   prior |-> IF id \in DOMAIN metrics.last_disk_stats
                             THEN Some(metrics.last_disk_stats[id]) ELSE None,
                   prior_time |-> IF id \in DOMAIN obsTime
                                  THEN Some(obsTime[id]) ELSE None,
                   ret |-> r.ret, caught |-> r.caught]
       /\ obsTime' = IF ~IsNone(r.ret) THEN MapSet(obsTime, id, t) ELSE obsTime

EngineNext ==
    \E id \in EngineIds, t \in Times :
        \E io \in EngineIO(id) :
            Observe(id, io, t) /\ UNCHANGED <<samplerVars, viewsVars, catalogVars>>

---------------------------------------------------------------------------
(* The plugin ticking: update() after update() *)

\* the dicts the counter source returns to the plugin: any devices in any
\* order, the machine having carried out at most MaxOps operations in all
RECURSIVE TotalOps(_, _)
TotalOps(d, i) ==
    IF i > Len(d) THEN 0
    ELSE d[i][2].read_count + d[i][2].write_count + TotalOps(d, i + 1)

SamplerDicts == { d \in DictsOver(BlockNames, CounterVals) : TotalOps(d, 1) <= MaxOps }

SamplerIO == {PsutilRaises} \cup { PsutilReturns(d) : d \in SamplerDicts }

\* the DeviceIDs the detection finds
CatalogIds(wmi) ==
    LET drives == list_nvme_drives(<<>>, wmi)
    IN { drives[i].DeviceID : i \in DOMAIN drives }

\* what the health call for FlakyDevice may be answered: what the detection
\* was answered, or wmi.WMI() raises, or the query raises, or the drive is
\* no longer listed
HealthAnswers(wmi) ==
    IF FlakyDevice \in CatalogIds(wmi)
    THEN {wmi, WmiOpenFails, WmiQueryFails, WmiAnswer(TRUE, Some(<<>>))}
    ELSE {wmi}

\* the dicts with the keys of d in the order of d
SameKeys(d) ==
    { e \in SamplerDicts : Len(e) = Len(d) /\ \A i \in DOMAIN d : e[i][1] = d[i][1] }

\* What the collaborators answer in the tick after one in which they
\* answered `in`: the counters of the devices have moved and the clock reads
\* anything, or the counter source fails or recovers, or WMI answers differently.
FollowingInputs(in) ==
    LET ios == IF in.io.raises THEN SamplerIO
               ELSE { PsutilReturns(e) : e \in SameKeys(in.io.disks) }
    IN { [in EXCEPT !.io = io, !.time = t] : io \in ios, t \in Times }
       \cup { [in EXCEPT !.io = PsutilRaises] }
       \cup UNION { { [in EXCEPT !.wmi = w, !.hwmi = h] : h \in HealthAnswers(w) }
                     : w \in WmiAnswers }

\* the answers of a tick, the clock aside
Answers(in) == <<in.io, in.wmi, in.hwmi>>

\* PluginModel.__init__: the plugin is constructed with its arguments and
\* configuration and runs a first update(), which must not raise
SamplerInit ==
    /\ self_args \in ArgsVals
    /\ hide_list \in { {}, {"ram0", "disk0"} }
    /\ \E io \in SamplerIO, w \in WmiAnswers, t \in Times :
         \E h \in HealthAnswers(w) :
           \E r \in {update_local(self_args, hide_list, io, w, h, t)} :
              /\ r.raised = ""
              /\ stats = r.stats
              /\ tick = [io |-> io, wmi |-> w, hwmi |-> h, time |-> t, raised |-> ""]
    /\ repeated = FALSE
    /\ metrics = NVMeMetricsInit(0)
    /\ call = NoCall
    /\ obsTime = EmptyMap
    /\ views = EmptyMap
    /\ alerts = <<>>
    /\ detector = <<>>
    /\ listing = NoListing

\* PluginModel.update() with input_method 'local': one call of update_local
Tick(in) ==
    \E r \in {update_local(self_args, hide_list, in.io, in.wmi, in.hwmi, in.time)} :
       /\ stats' = r.stats
       /\ tick' = [io |-> in.io, wmi |-> in.wmi, hwmi |-> in.hwmi, time |-> in.time,
                   raised |-> r.raised]
       /\ repeated' = (Answers(in) = Answers(tick))
       /\ UNCHANGED <<self_args, hide_list>>

SamplerNext ==
    \E in \in FollowingInputs([io |-> tick.io, wmi |-> tick.wmi, hwmi |-> tick.hwmi,
                               time |-> tick.time]) :
        Tick(in) /\ UNCHANGED <<engineVars, viewsVars, catalogVars>>

---------------------------------------------------------------------------
(* The views of the stats of the first update *)

\* PluginModel.update_views() on the stats the update left
UpdateViews ==
    \E r \in {update_views(stats)} :
       /\ views' = r.views
       /\ alerts' = r.alerts

ViewsNext == UpdateViews /\ UNCHANGED <<engineVars, samplerVars, catalogVars>>

---------------------------------------------------------------------------
(* One NVMeDetection instance called again and again *)

\* NVMeDetection() constructed; the plugin and the engine are left alone
CatalogInit ==
    /\ detector = <<>>
    /\ listing = NoListing
    /\ metrics = NVMeMetricsInit(0)
    /\ call = NoCall
    /\ obsTime = EmptyMap
    /\ self_args = IdlePlugin.self_args
    /\ hide_list = IdlePlugin.hide_list
    /\ stats = IdlePlugin.stats
    /\ tick = IdlePlugin.tick
    /\ repeated = FALSE
    /\ views = EmptyMap
    /\ alerts = <<>>

\* detector.detect_nvme_drives(), WMI answering wmi
Detect(wmi) ==
    /\ Len(detector) < MaxCatalog
    /\ detector' = detect_nvme_drives(detector, wmi).nvme_drives
    /\ UNCHANGED listing

\* detector.list_nvme_drives(), WMI answering wmi
List(wmi) ==
    \E r \in {list_nvme_drives(detector, wmi)} :
       /\ detector' = r
       /\ listing' = [made |-> TRUE, wmi |-> wmi, ret |-> r]

CatalogNext ==
    \E wmi \in WmiAnswers :
       /\ Detect(wmi) \/ List(wmi)
       /\ UNCHANGED <<engineVars, samplerVars, viewsVars>>

---------------------------------------------------------------------------
(* Specifications *)

\* an NVMeMetrics instance observed again and again
SpecEngine == EngineInit /\ [][EngineNext]_vars

\* the plugin updated again and again (its update_local builds the NVMeMetrics
\* instances it uses; the long-lived instance is left alone)
SpecSampler == SamplerInit /\ [][SamplerNext]_vars

\* the plugin constructed (with its first update), then its views updated
SpecViews == SamplerInit /\ [][ViewsNext]_vars

\* an NVMeDetection instance asked again and again while drives come and go
SpecCatalog == CatalogInit /\ [][CatalogNext]_vars

---------------------------------------------------------------------------
(* Claims about the engine (SpecEngine) *)

\* the last call observed a device that is in the counter snapshot
Observed == call.made /\ ~IsNone(call.current)
\* ... and the engine held a prior snapshot of it
ObservedAgain == Observed /\ ~IsNone(call.prior)

\* C1 (rate correctness): an observation of a device with a stored prior
\* taken at t_prev, made at a time t_now > t_prev, returns for each byte
\* counter that did not decrease the rate (c_now - c_prev) / (t_now - t_prev),
\* t_prev being the time of that device's own previous observation.  Stated
\* of the observations that return a result.
C1_RateCorrectness ==
    (ObservedAgain /\ call.time > Val(call.prior_time) /\ ~IsNone(call.ret)) =>
        LET dt == call.time - Val(call.prior_time)
            now == Val(call.current)
            prev == Val(call.prior)
        IN /\ (now.read_bytes >= prev.read_bytes =>
                 FracEq(Val(call.ret).read_speed, now.read_bytes - prev.read_bytes, dt))
           /\ (now.write_bytes >= prev.write_bytes =>
                 FracEq(Val(call.ret).write_speed, now.write_bytes - prev.write_bytes, dt))

\* C2 (first-tick zero rule): an observation of a device with no stored
\* prior returns zero read and write rates whatever its counters are, and
\* stores the observed snapshot as the prior of that id.
C2_FirstTickZero ==
    (Observed /\ IsNone(call.prior)) =>
        /\ ~IsNone(call.ret)
        /\ FracIsZero(Val(call.ret).read_speed)
        /\ FracIsZero(Val(call.ret).write_speed)
        /\ call.device_id \in DOMAIN metrics.last_disk_stats
        /\ metrics.last_disk_stats[call.device_id] = Val(call.current)

\* a first observation of a device whose absolute counters are not 0
C2_Witness ==
    /\ Observed /\ IsNone(call.prior)
    /\ Val(call.current).read_bytes + Val(call.current).write_bytes > 0
    /\ ~IsNone(call.ret)
    /\ metrics.last_disk_stats[call.device_id] = Val(call.current)

\* C3 (no negative rate): every rate an observation returns is >= 0, and
\* when a counter is lower than the stored prior the rate returned for it is 0.
C3_NoNegativeRate ==
    (Observed /\ ~IsNone(call.ret)) =>
        /\ ~FracIsNegative(Val(call.ret).read_speed)
        /\ ~FracIsNegative(Val(call.ret).write_speed)
        /\ (ObservedAgain /\ Val(call.current).read_bytes < Val(call.prior).read_bytes =>
              FracIsZero(Val(call.ret).read_speed))
        /\ (ObservedAgain /\ Val(call.current).write_bytes < Val(call.prior).write_bytes =>
              FracIsZero(Val(call.ret).write_speed))

\* C4 (dt guard): an observation of a device at the very time of its previous
\* observation returns rates of 0, and no division by zero is ever raised,
\* caught or not.
C4_DtGuard ==
    /\ call.caught # "ZeroDivisionError"
    /\ (ObservedAgain /\ call.time = Val(call.prior_time)) =>
          /\ ~IsNone(call.ret)
          /\ FracIsZero(Val(call.ret).read_speed)
          /\ FracIsZero(Val(call.ret).write_speed)

\* C12 (clock non-monotonicity): an observation of a device made at a time
\* earlier than the time its stored prior was observed (dt < 0) returns
\* rates of 0, whatever the counter deltas are.
C12_ClockNonMonotonic ==
    (ObservedAgain /\ call.time < Val(call.prior_time)) =>
        /\ ~IsNone(call.ret)
        /\ FracIsZero(Val(call.ret).read_speed)
        /\ FracIsZero(Val(call.ret).write_speed)

\* C15 (per-device independence of engine state): an observation of a device
\* leaves what the engine retains for every other device as it was: its
\* stored counters, and the time reference its next rate is computed from
\* (last_update_time).
C15_PerDeviceIndependence ==
    [][ call'.made =>
          \A b \in DOMAIN metrics.last_disk_stats \ {call'.device_id} :
             /\ b \in DOMAIN metrics'.last_disk_stats
             /\ metrics'.last_disk_stats[b] = metrics.last_disk_stats[b]
             /\ metrics'.last_update_time = metrics.last_update_time ]_vars

\* C16 (the prior is always the latest observation): after an observation of
\* an id that is in the counter snapshot, whatever dt is, the stored prior
\* of that id is the snapshot just observed, and no entry of another id has
\* been removed; an observation of an id that is not in the snapshot returns
\* no result and leaves the engine as it was.
C16_PriorIsLatest ==
    [][ call'.made =>
          /\ ~IsNone(call'.current) =>
                /\ call'.device_id \in DOMAIN metrics'.last_disk_stats
                /\ metrics'.last_disk_stats[call'.device_id] = Val(call'.current)
                /\ DOMAIN metrics.last_disk_stats \subseteq DOMAIN metrics'.last_disk_stats
          /\ (IsNone(call'.current) /\ call'.caught = "") =>
                (IsNone(call'.ret) /\ metrics' = metrics) ]_vars

---------------------------------------------------------------------------
(* Claims about update_local (SpecSampler) *)

\* the last update_local returned a list built by its two loops
Completed(tk) == tk.raised = "" /\ ~tk.io.raises

\* the NVMe drives the detection of that tick listed: their stats are the
\* first entries of the list, in this order, the regular disks follow
Catalog(tk) == list_nvme_drives(<<>>, tk.wmi)

IsNVMeRecord(tk, k) == k <= Len(Catalog(tk))
IsRegularRecord(tk, k) == k > Len(Catalog(tk))

\* the k-th record of the list stands for the device `id` of the counter source
Represents(lst, tk, k, id) ==
    \/ IsNVMeRecord(tk, k) /\ Catalog(tk)[k].DeviceID = id
    \/ IsRegularRecord(tk, k) /\ lst[k].disk_name = id

HasRegularRecord(lst, tk, id) ==
    \E k \in DOMAIN lst : IsRegularRecord(tk, k) /\ lst[k].disk_name = id

AllRatesZero(lst) ==
    \A k \in DOMAIN lst : FracIsZero(lst[k].read_speed) /\ FracIsZero(lst[k].write_speed)

DeviceSet(lst) == { lst[k].disk_name : k \in DOMAIN lst }

\* C5 (rate state persists across ticks): the first tick reports rates of 0,
\* and for a device with a record in two consecutive ticks dt > 0 apart whose
\* byte counters grew by d_read and d_write, the record of the second tick
\* reports the read rate d_read / dt and the write rate d_write / dt.
C5_SecondTickRate ==
    (Completed(tick) /\ Completed(tick') /\ tick'.time > tick.time) =>
       \A id \in Keys(tick.io.disks) \cap Keys(tick'.io.disks) :
          LET prev == Get(tick.io.disks, id)
              now == Get(tick'.io.disks, id)
              dt == tick'.time - tick.time
          IN (now.read_bytes >= prev.read_bytes /\ now.write_bytes >= prev.write_bytes) =>
               \A k \in DOMAIN stats' :
                  (Represents(stats', tick', k, id)
                     /\ \E j \in DOMAIN stats : Represents(stats, tick, j, id)) =>
                     /\ FracEq(stats'[k].read_speed, now.read_bytes - prev.read_bytes, dt)
                     /\ FracEq(stats'[k].write_speed, now.write_bytes - prev.write_bytes, dt)

C5_RatePersists == AllRatesZero(stats) /\ [][C5_SecondTickRate]_vars

C7_RamFilter ==
    Completed(tick) =>
       \A id \in Keys(tick.io.disks) :
          LET ram == StartsWith(id, "ram")
              optionFalse == ~IsNone(self_args) /\ ~Val(self_args).diskio_show_ramfs
              optionTrue == ~IsNone(self_args) /\ Val(self_args).diskio_show_ramfs
          IN /\ (ram /\ optionFalse) => ~HasRegularRecord(stats, tick, id)
             /\ (ram /\ optionTrue /\ is_display(hide_list, id)) =>
                   HasRegularRecord(stats, tick, id)
             /\ (~ram /\ is_display(hide_list, id)) => HasRegularRecord(stats, tick, id)

\* the option is false, nothing is hidden, the RAM disk is filtered out and
\* the other disk is not
C7_Witness ==
    /\ Completed(tick)
    /\ self_args = Some([diskio_show_ramfs |-> FALSE]) /\ hide_list = {}
    /\ Keys(tick.io.disks) = {"ram0", "disk0"}
    /\ ~HasRegularRecord(stats, tick, "ram0")
    /\ HasRegularRecord(stats, tick, "disk0")

\* C8 (no double counting): a device that has an NVMe record in the list of
\* a tick has no regular record in it, also when its DeviceID is in the
\* counter snapshot.
C8_NoDoubleCounting ==
    Completed(tick) =>
       \A k \in DOMAIN stats :
          IsNVMeRecord(tick, k) => ~HasRegularRecord(stats, tick, Catalog(tick)[k].DeviceID)

\* Python orders strings by code point: the characters of the names of the
\* model, in that order
CodePoints == " 0123456789ABCDEFGHIJKLMNOPQRSTUVWXYZabcdefghijklmnopqrstuvwxyz"

Ord(c) == CHOOSE i \in 1..Len(CodePoints) : SubSeq(CodePoints, i, i) = c

RECURSIVE StrLess(_, _, _)
\* a < b for two strings, compared from position i on
StrLess(a, b, i) ==
    IF i > Len(b) THEN FALSE
    ELSE IF i > Len(a) THEN TRUE
    ELSE LET ca == Ord(SubSeq(a, i, i))
             cb == Ord(SubSeq(b, i, i))
         IN IF ca # cb THEN ca < cb ELSE StrLess(a, b, i + 1)

\* position of the key in the mapping the counter source returned
KeyIndex(d, k) == CHOOSE i \in DOMAIN d : d[i][1] = k

\* C9 as stated (records ordered by identifier): the list a tick returns is
\* in ascending order of disk_name, whatever the drives and whatever the
\* order in which the counter source enumerates the disks.
C9_SortedByIdentifier ==
    Completed(tick) =>
       \A i, j \in DOMAIN stats :
          i < j => ~StrLess(stats[j].disk_name, stats[i].disk_name, 1)

\* C9 as amended (records in collection order): the list a tick returns
\* holds the NVMe records first, in the order of the detection's list, then
\* the regular records in the order in which the counter source enumerates
\* the disks; it is not sorted.
C9_CollectionOrder ==
    Completed(tick) =>
       /\ Len(Catalog(tick)) <= Len(stats)
       /\ \A k \in DOMAIN stats :
             IsNVMeRecord(tick, k) =>
                /\ stats[k].disk_name = Catalog(tick)[k].Model
                /\ stats[k].health_status # "N/A"
       /\ \A k \in DOMAIN stats :
             IsRegularRecord(tick, k) =>
                /\ HasKey(tick.io.disks, stats[k].disk_name)
                /\ stats[k].health_status = "N/A"
       /\ \A i, j \in DOMAIN stats :
             (IsRegularRecord(tick, i) /\ i < j) =>
                KeyIndex(tick.io.disks, stats[i].disk_name)
                   < KeyIndex(tick.io.disks, stats[j].disk_name)

\* an NVMe record followed by two regular records whose names the counter
\* source enumerated in descending order
C9_Witness ==
    /\ Completed(tick)
    /\ Len(stats) = 3 /\ IsNVMeRecord(tick, 1) /\ IsRegularRecord(tick, 2)
    /\ StrLess(stats[3].disk_name, stats[2].disk_name, 1)

\* C10 (a failing collaborator never aborts the tick): update_local returns
\* a list whatever the detection and the health call do, and the record of a
\* drive whose health call failed has health_status "Unknown" and no
\* temperature.
C10_FailingCollaboratorRecovered ==
    /\ tick.raised = ""
    /\ (Completed(tick) /\ (~tick.hwmi.open \/ IsNone(tick.hwmi.disks))) =>
          \A k \in DOMAIN stats :
             (IsNVMeRecord(tick, k) /\ Catalog(tick)[k].DeviceID = FlakyDevice) =>
                (stats[k].health_status = "Unknown" /\ IsNone(stats[k].temperature))

\* C11 (a failing counter source means no regular devices): when the
\* counter snapshot call of a tick fails, update_local does not raise and
\* returns the list it returns for an empty counter snapshot: the records
\* of the NVMe drives detected and no regular record.
C11_CounterSourceFailure ==
    tick.io.raises =>
       /\ tick.raised = ""
       /\ \A e \in {update_local(self_args, hide_list, PsutilReturns(<<>>),
                                 tick.wmi, tick.hwmi, tick.time)} :
             e.raised = "" => (stats = e.stats /\ Len(stats) = Len(Catalog(tick)))

\* what the health call of the tick returned for the drive of the k-th record
HealthOf(tk, k) ==
    get_nvme_health_metrics(Catalog(tk)[k].DeviceID,
                            HealthWmi(Catalog(tk)[k].DeviceID, tk.wmi, tk.hwmi)).ret

\* C14 (telemetry of the NVMe records): the list a tick returns holds one
\* record for every drive detected, with the health status and the
\* temperature the health call returned for its DeviceID, or "Unknown" and
\* None when the call returned nothing; every regular record has the
\* health status "N/A" and the temperature None.
C14_Telemetry ==
    Completed(tick) =>
       /\ Len(Catalog(tick)) <= Len(stats)
       /\ \A k \in DOMAIN stats :
             IF IsNVMeRecord(tick, k)
             THEN /\ stats[k].disk_name = Catalog(tick)[k].Model
                  /\ IF IsNone(HealthOf(tick, k))
                     THEN /\ stats[k].health_status = "Unknown"
                          /\ IsNone(stats[k].temperature)
                     ELSE /\ stats[k].health_status = Val(HealthOf(tick, k)).health_status
                          /\ stats[k].temperature = Val(HealthOf(tick, k)).temperature
             ELSE /\ stats[k].health_status = "N/A"
                  /\ IsNone(stats[k].temperature)

\* a list with the record of a drive whose health call returned metrics,
\* the record of a drive whose health call returned nothing, and a regular
\* record
C14_Witness ==
    /\ Completed(tick)
    /\ \E k \in DOMAIN stats : IsNVMeRecord(tick, k) /\ stats[k].health_status = "Healthy"
    /\ \E k \in DOMAIN stats : IsNVMeRecord(tick, k) /\ IsNone(HealthOf(tick, k))
    /\ \E k \in DOMAIN stats : IsRegularRecord(tick, k)

---------------------------------------------------------------------------
(* Claims about update_views (SpecViews) *)

\* update_views has run on the list of the tick
Viewed == Completed(tick) /\ Len(alerts) = 2 * Len(stats) /\ stats # <<>>

\* the device of the counter source the k-th record stands for
DeviceOf(tk, lst, k) ==
    IF IsNVMeRecord(tk, k) THEN Catalog(tk)[k].DeviceID ELSE lst[k].disk_name

\* C13 (alert tagging checks absolute counters): for every record of the
\* tick, NVMe or regular, whose device is in the counter snapshot, the
\* values update_views passes to get_alert are the read_bytes and the
\* write_bytes the counter source gave for that device.
C13_AlertOnRawCounters ==
    Viewed =>
       \A k \in DOMAIN stats :
          HasKey(tick.io.disks, DeviceOf(tick, stats, k)) =>
             /\ alerts[2 * k - 1].current
                   = Get(tick.io.disks, DeviceOf(tick, stats, k)).read_bytes
             /\ alerts[2 * k].current
                   = Get(tick.io.disks, DeviceOf(tick, stats, k)).write_bytes

\* C18 (record keys are unique within a tick): no two records of the list
\* update_local returns have the same disk_name, so that update_views
\* leaves one view per record.
C18_UniqueKeys ==
    Completed(tick) =>
       /\ \A i, j \in DOMAIN stats : i # j => stats[i].disk_name # stats[j].disk_name
       /\ Viewed => Cardinality(DOMAIN views) = Len(stats)

---------------------------------------------------------------------------
(* Claims about NVMeDetection (SpecCatalog) *)

\* the DeviceIDs of the drives WMI lists whose Model holds the model name
MatchingIds(wmi) ==
    { Val(wmi.disks)[i].DeviceID :
        i \in { j \in DOMAIN Val(wmi.disks) :
                  /\ ~IsNone(Val(wmi.disks)[j].Model)
                  /\ Contains(Val(Val(wmi.disks)[j].Model), NVMeModelName) } }

\* C17 (catalog currency): whatever detect_nvme_drives and list_nvme_drives
\* calls were made on the instance before, list_nvme_drives returns the
\* matching drives WMI lists at the time of the call, each DeviceID once.
C17_CatalogCurrency ==
    (listing.made /\ listing.wmi.open /\ ~IsNone(listing.wmi.disks)) =>
       /\ { listing.ret[i].DeviceID : i \in DOMAIN listing.ret } = MatchingIds(listing.wmi)
       /\ \A i, j \in DOMAIN listing.ret :
             i # j => listing.ret[i].DeviceID # listing.ret[j].DeviceID

=============================================================================
